---- MODULE Spec2Model ----
(***************************************************************************)
(* Parquet decimal decoding of core/rust/qdbr/src/parquet_read/decimal.rs. *)
(*                                                                         *)
(* Two specifications share the module:                                    *)
(*   SpecConv  the byte converter convert_decimal as a pure function: Init *)
(*             draws a source and a target width, the actions apply it.    *)
(*   Spec      one decode call: an entry point validates and builds the    *)
(*             slicer and the sink, the driver issues sink operations one  *)
(*             at a time, result() ends the call.                          *)
(* Bytes are the integers 0..255; sequences are 1-based, so the source's   *)
(* src[i] is src[i + 1] here.                                              *)
(***************************************************************************)
EXTENDS Integers, Sequences, FiniteSets, TLC

VARIABLES
    c_pc,       \* converter harness: "idle", "ready", "converted", "extended", "reconverted"
    c_N,        \* const generic N of the sink whose convert_decimal is applied
    c_src,      \* the source slice handed to convert_decimal
    c_out,      \* what convert_decimal returned and wrote
    c_first,    \* the source and outcome of the first conversion, kept for the second
    call,       \* the decode call: entry point, target_tag, src_len, dict_page, FILL_NULLS
    page,       \* the data page and the row arguments: row_lo, row_hi, levels, rows_filter
    pc,         \* "idle", "call", "driving", "returned"
    ret,        \* "none", "Ok", "Unsupported", "Layout"
    data_vec,   \* bufs.data_vec: the bytes below len()
    capacity,   \* bufs.data_vec.capacity()
    sink,       \* the sink built by the entry point
    slicer,     \* the slicer built by the entry point
    stream,     \* the values the slicer has passed over, by stream position
    pending     \* the sink operations the driver has still to issue

cvars == <<c_pc, c_N, c_src, c_out, c_first>>
dvars == <<call, page, pc, ret, data_vec, capacity, sink, slicer, stream, pending>>
vars == <<cvars, dvars>>

(***************************************************************************)
(* Bounds of the model.                                                    *)
(***************************************************************************)
MaxShort == 3      \* SpecConv: every source of at most this many bytes over ByteVals
MaxTail == 2       \* SpecConv: long sources are a run of sign bytes and a tail this long
MaxRows == 2       \* Spec: rows of the page

\* 0x00, 0x01, 0x7F, 0x80, 0xFF: both signs, both values of the high bit.
ByteVals == {0, 1, 127, 128, 255}

Pad(b, k) == [i \in 1..k |-> b]
Reverse(s) == [i \in 1..Len(s) |-> s[Len(s) + 1 - i]]
\* b & 0x80
HighBit(b) == IF b >= 128 THEN 128 ELSE 0

TargetSizes == {1, 2, 4, 8, 16, 32}

(***************************************************************************)
(* ByteArrayDecimalColumnSink::convert_decimal                             *)
(***************************************************************************)
Unsupported(why) == [err |-> "Unsupported", why |-> why, dest |-> <<>>]
Written(bytes) == [err |-> "none", why |-> "", dest |-> bytes]

\* let sign_byte = if src[0] & 0x80 != 0 { 0xFF } else { 0x00 };
sign_byte_wrong(src) == 0
sign_byte_of(src) == IF HighBit(src[1]) # 0 THEN 255 ELSE 0

\* The two checks of the src_len > N branch, in the source's order: "ok" when both
\* pass, otherwise the message of the first that fails.
overflow_check_no_msb(src, N) ==
    LET sign_byte == sign_byte_of(src)
        trunc == Len(src) - N
    IN  IF \E k \in 1..trunc : src[k] # sign_byte THEN "not sign-extended" ELSE "ok"
overflow_check(src, N) ==
    LET sign_byte == sign_byte_of(src)
        trunc == Len(src) - N
        msb == src[trunc + 1]
    IN  IF \E k \in 1..trunc : src[k] # sign_byte
        THEN "not sign-extended"
        ELSE IF HighBit(msb) # HighBit(sign_byte)
             THEN "would truncate significant digits"
             ELSE "ok"

\* N <= 8: dest[i] = src[src_len - 1 - i] for i < src_len, sign_byte above.
write_single_zero_fill(src, N) ==
    LET src_len == Len(src)
    IN  [j \in 1..N |-> IF j <= src_len THEN src[src_len + 1 - j] ELSE 0]
write_single(src, N) ==
    LET src_len == Len(src)
        sign_byte == sign_byte_of(src)
    IN  [j \in 1..N |-> IF j <= src_len THEN src[src_len + 1 - j] ELSE sign_byte]

\* N > 8: for w in 0..words, for i in 0..8: extended_pos = w * 8 + 7 - i.
write_words_low_first(src, N) ==
    LET src_len == Len(src)
        sign_byte == sign_byte_of(src)
        sign_prefix == N - src_len
    IN  [j \in 1..N |->
            LET extended_pos == N - j
            IN  IF extended_pos < sign_prefix
                THEN sign_byte
                ELSE src[extended_pos - sign_prefix + 1]]
write_words(src, N) ==
    LET src_len == Len(src)
        sign_byte == sign_byte_of(src)
        sign_prefix == N - src_len
    IN  [j \in 1..N |->
            LET w == (j - 1) \div 8
                i == (j - 1) % 8
                extended_pos == w * 8 + 7 - i
            IN  IF extended_pos < sign_prefix
                THEN sign_byte
                ELSE src[extended_pos - sign_prefix + 1]]

\* The same loops step by step, in the order the writes happen: step t writes
\* byte at offset off of dest and reads src[read] (read = -1: the sign byte).
write_words_steps_word_stride(src, N) ==
    LET src_len == Len(src)
        sign_byte == sign_byte_of(src)
        sign_prefix == N - src_len
    IN  [t \in 1..N |->
            LET w == (t - 1) \div 8
                i == (t - 1) % 8
                extended_pos == w * 8 + 7 - i
            IN  [off |-> w + i,
                 read |-> IF extended_pos < sign_prefix THEN -1
                          ELSE extended_pos - sign_prefix,
                 byte |-> IF extended_pos < sign_prefix
                          THEN sign_byte
                          ELSE src[extended_pos - sign_prefix + 1]]]
write_words_steps(src, N) ==
    LET src_len == Len(src)
        sign_byte == sign_byte_of(src)
        sign_prefix == N - src_len
    IN  [t \in 1..N |->
            LET w == (t - 1) \div 8
                i == (t - 1) % 8
                extended_pos == w * 8 + 7 - i
            IN  [off |-> w * 8 + i,
                 read |-> IF extended_pos < sign_prefix THEN -1
                          ELSE extended_pos - sign_prefix,
                 byte |-> IF extended_pos < sign_prefix
                          THEN sign_byte
                          ELSE src[extended_pos - sign_prefix + 1]]]

write_out(src, N) == IF N <= 8 THEN write_single(src, N) ELSE write_words(src, N)

convert_decimal_zero_len_as_zero(src, N) ==
    IF Len(src) = 0
    THEN Written(Pad(0, N))
    ELSE IF Len(src) > N
         THEN LET checked == overflow_check(src, N)
                  trunc == Len(src) - N
              IN  IF checked # "ok"
                  THEN Unsupported(checked)
                  ELSE Written(write_out(SubSeq(src, trunc + 1, Len(src)), N))
         ELSE Written(write_out(src, N))
convert_decimal(src, N) ==
    IF Len(src) = 0
    THEN Unsupported("invalid source length 0")
    ELSE IF Len(src) > N
         THEN LET checked == overflow_check(src, N)
                  trunc == Len(src) - N
              IN  IF checked # "ok"
                  THEN Unsupported(checked)
                  ELSE Written(write_out(SubSeq(src, trunc + 1, Len(src)), N))
         ELSE Written(write_out(src, N))

(***************************************************************************)
(* SpecConv: convert_decimal over bounded inputs.                          *)
(***************************************************************************)
SeqsUpTo(n) == UNION {[1..k -> ByteVals] : k \in 0..n}

\* The rows of the spec's scenario table that name a source.
ScenarioSrcs ==
    { <<1>>, <<255>>, <<128, 0>>,
      <<0, 0, 0, 0, 0, 0, 0, 1>>,
      <<255, 255, 255, 255, 127, 255, 255, 255>>,
      <<0, 0, 0, 0, 127, 255, 255, 255>> }

\* A run of 0x00 or 0xFF that reaches or passes a word-sized target, then a tail.
LongSrcs ==
    { Pad(p, k) \o t : p \in {0, 255},
                       k \in {7, 8, 15, 16, 31, 32},
                       t \in SeqsUpTo(MaxTail) \ {<<>>} }

ConvSrcs == SeqsUpTo(MaxShort) \cup LongSrcs \cup ScenarioSrcs

NoOut == [err |-> "pending", why |-> "", dest |-> <<>>]
NoFirst == [src |-> <<>>, out |-> NoOut]

NoCall == [entry |-> "none"]
NoPage == [row_lo |-> 0, row_hi |-> 0, defs |-> <<>>, filter |-> <<>>]
NoSink == [kind |-> "none"]
NoSlicer == [kind |-> "none"]

DecodeIdle ==
    /\ call = NoCall
    /\ page = NoPage
    /\ pc = "idle"
    /\ ret = "none"
    /\ data_vec = <<>>
    /\ capacity = 0
    /\ sink = NoSink
    /\ slicer = NoSlicer
    /\ stream = <<>>
    /\ pending = <<>>

InitConv ==
    /\ c_pc = "ready"
    /\ c_N \in TargetSizes
    /\ c_src \in ConvSrcs
    /\ c_out = NoOut
    /\ c_first = NoFirst
    /\ DecodeIdle

\* One call of convert_decimal on the current source.
Convert ==
    /\ c_pc \in {"ready", "extended"}
    /\ c_out' = convert_decimal(c_src, c_N)
    /\ c_pc' = IF c_pc = "ready" THEN "converted" ELSE "reconverted"
    /\ UNCHANGED <<c_N, c_src, c_first, dvars>>

\* The sign-extension law's second input: the source widened to N bytes by
\* prepending its sign byte, to be converted in turn.
SignExtended(src, N) == Pad(IF src[1] >= 128 THEN 255 ELSE 0, N - Len(src)) \o src

Resubmit ==
    /\ c_pc = "converted"
    /\ Len(c_src) >= 1
    /\ Len(c_src) < c_N
    /\ c_first' = [src |-> c_src, out |-> c_out]
    /\ c_src' = SignExtended(c_src, c_N)
    /\ c_out' = NoOut
    /\ c_pc' = "extended"
    /\ UNCHANGED <<c_N, dvars>>

NextConv == Convert \/ Resubmit

SpecConv == InitConv /\ [][NextConv]_vars

(***************************************************************************)
(* Spec: one decode call.                                                  *)
(*                                                                         *)
(* The page's value stream is revealed as the slicer passes over it: a     *)
(* value is drawn when next() returns it, and stream keeps what each       *)
(* position held. The slicers, the driver (decode_page0 and                *)
(* decode_page0_filtered), the three fixed-width sinks and the NULL        *)
(* constants are not in this file; they follow the specification.          *)
(* Page anchors page_row_start and row_group_lo are 0: the page starts its *)
(* row group, so a filter entry f names page row f.                        *)
(***************************************************************************)
Tags == {"Decimal8", "Decimal16", "Decimal32", "Decimal64", "Decimal128",
         "Decimal256", "Long"}

\* let target_size = match target_tag { .. }; 0 stands for the `_` arm.
target_size(tag) ==
    CASE tag = "Decimal8" -> 1
      [] tag = "Decimal16" -> 2
      [] tag = "Decimal32" -> 4
      [] tag = "Decimal64" -> 8
      [] tag = "Decimal128" -> 16
      [] tag = "Decimal256" -> 32
      [] OTHER -> 0

\* DECIMAL8_NULL .. DECIMAL256_NULL: the minimum signed value of the width in the
\* target layout (0x80 in the top byte of the most significant word).
NullValue(N) == [j \in 1..N |-> IF j = (IF N <= 8 THEN N ELSE 8) THEN 128 ELSE 0]

\* The checks every fixed-width dispatcher starts with: the target tag, then
\* src_len == 0 || src_len > 32.
fixed_validate_no_upper(tag, src_len) ==
    IF target_size(tag) = 0
    THEN "Unsupported"
    ELSE IF src_len = 0 THEN "Unsupported" ELSE "ok"
fixed_validate(tag, src_len) ==
    IF target_size(tag) = 0
    THEN "Unsupported"
    ELSE IF src_len = 0 \/ src_len > 32 THEN "Unsupported" ELSE "ok"

\* if src_len == $target_size { Reverse / WordSwap sink } else { SignExtend sink }
fixed_sink(N, src_len) ==
    [kind |-> IF src_len = N
              THEN (IF N <= 8 THEN "reverse" ELSE "wordswap")
              ELSE "signextend",
     N |-> N, null_value |-> NullValue(N), src_len |-> src_len]

\* ByteArrayDecimalColumnSink::<N, _>::new(slicer, bufs, DECIMALn_NULL)
byte_array_sink(N) ==
    [kind |-> "bytearray", N |-> N, null_value |-> NullValue(N), src_len |-> 0]

(***************************************************************************)
(* RuntimeFixedDictDecoder                                                 *)
(***************************************************************************)
RuntimeFixedDictDecoder_try_new_any_size(dict_page, value_size) ==
    IF value_size = 0
    THEN [err |-> "Layout"]
    ELSE [err |-> "none", kind |-> "fixed", dict_page |-> dict_page.buffer,
          value_size |-> value_size]
RuntimeFixedDictDecoder_try_new(dict_page, value_size) ==
    IF value_size = 0
    THEN [err |-> "Layout"]
    ELSE IF value_size * dict_page.num_values # Len(dict_page.buffer)
         THEN [err |-> "Layout"]
         ELSE [err |-> "none", kind |-> "fixed", dict_page |-> dict_page.buffer,
               value_size |-> value_size]

get_dict_value_unscaled(d, index) ==
    LET start == index
        end == start + d.value_size
    IN  SubSeq(d.dict_page, start + 1, end)
get_dict_value(d, index) ==
    LET start == index * d.value_size
        end == start + d.value_size
    IN  SubSeq(d.dict_page, start + 1, end)

fixed_dict_len(d) == Len(d.dict_page) \div d.value_size

\* VarDictDecoder: the dictionary page's length-prefixed values, already parsed.
VarDictDecoder_try_new(dict_page) ==
    [err |-> "none", kind |-> "var", values |-> dict_page.values]

dict_len(d) == IF d.kind = "fixed" THEN fixed_dict_len(d) ELSE Len(d.values)
dict_get(d, index) ==
    IF d.kind = "fixed" THEN get_dict_value(d, index) ELSE d.values[index + 1]

\* (an empty placeholder)
DECIMAL_DICT_ERROR_VALUE_empty == <<>>
\* const DECIMAL_DICT_ERROR_VALUE: [u8; 1] = [0u8];
DECIMAL_DICT_ERROR_VALUE == <<0>>

(***************************************************************************)
(* Slicers: what next() can return at the next stream position.            *)
(***************************************************************************)
\* Values of a fixed-width page: a small positive, a negative that fits one byte,
\* and (for S > 1) a value that needs all S bytes.
FixedVals(S) ==
    {Pad(0, S - 1) \o <<5>>, Pad(255, S - 1) \o <<128>>, <<1>> \o Pad(0, S - 1)}

\* Values of a byte-array page: as above, a zero-length value, and the value 5
\* written on 33 bytes.
VarVals == {<<5>>, <<255, 128>>, <<1, 0>>, <<>>, Pad(0, 32) \o <<5>>}

\* Dictionary indices of an RLE page: 0 .. MaxIndex; the dictionaries hold at
\* most two values, so MaxIndex is out of range for every one of them.
MaxIndex == 2

DynSlicer(src_len) == [kind |-> "dyn", value_size |-> src_len, error |-> FALSE]
VarSlicer == [kind |-> "var", error |-> FALSE]
RleSlicer(dict, error_value) ==
    [kind |-> "rle", dict |-> dict, error_value |-> error_value, error |-> FALSE]

Entry(idx, bytes) == [idx |-> idx, bytes |-> bytes, read |-> TRUE]

\* RleDictionarySlicer::next: the dictionary value of the index, or error_value
\* for an index that is out of range.
RleLookup(sl, i) ==
    IF i < dict_len(sl.dict) THEN dict_get(sl.dict, i) ELSE sl.error_value

NextChoices(sl) ==
    CASE sl.kind = "dyn" -> {Entry(-1, v) : v \in FixedVals(sl.value_size)}
      [] sl.kind = "var" -> {Entry(-1, v) : v \in VarVals}
      [] sl.kind = "rle" -> {Entry(i, RleLookup(sl, i)) : i \in 0..MaxIndex}

\* What skip passes over: the value stored at the position, which is not
\* materialized (read is FALSE). An RLE slicer still decodes the index, which is
\* kept; it is not looked up, and an index outside the dictionary has no value.
Passed(idx, bytes) == [idx |-> idx, bytes |-> bytes, read |-> FALSE]

SkipChoices(sl) ==
    CASE sl.kind = "dyn" -> {Passed(-1, v) : v \in FixedVals(sl.value_size)}
      [] sl.kind = "var" -> {Passed(-1, v) : v \in VarVals}
      [] sl.kind = "rle" ->
             {Passed(i, IF i < dict_len(sl.dict) THEN dict_get(sl.dict, i) ELSE <<>>) :
                 i \in 0..MaxIndex}

\* The deferred error of the slicer after it returned the entries es.
SlicerAfter(sl, es) ==
    IF sl.kind = "rle"
    THEN [sl EXCEPT !.error =
              sl.error \/ \E k \in 1..Len(es) : es[k].idx >= dict_len(sl.dict)]
    ELSE sl

(***************************************************************************)
(* The conversions of the fixed-width sinks.                               *)
(***************************************************************************)
\* SignExtendDecimalColumnSink: the specification's byte converter (section 4.1).
sign_extend_convert(src, N) ==
    LET S == Len(src)
    IN  IF S = 0
        THEN Unsupported("invalid source length 0")
        ELSE LET sign == IF src[1] >= 128 THEN 255 ELSE 0
                 trunc == S - N
                 fits == /\ \A k \in 1..trunc : src[k] = sign
                         /\ HighBit(src[trunc + 1]) = HighBit(sign)
                 src_eff == IF S > N THEN SubSeq(src, trunc + 1, S) ELSE src
                 Seff == Len(src_eff)
                 sign_prefix == N - Seff
             IN  IF S > N /\ ~fits
                 THEN Unsupported("source larger than target and not sign-extendable")
                 ELSE IF N <= 8
                      THEN Written([j \in 1..N |->
                               IF j <= Seff THEN src_eff[Seff + 1 - j] ELSE sign])
                      ELSE Written([j \in 1..N |->
                               LET p == ((j - 1) \div 8) * 8 + 7 - ((j - 1) % 8)
                               IN  IF p < sign_prefix
                                   THEN sign
                                   ELSE src_eff[p - sign_prefix + 1]])

\* ReverseFixedColumnSink (S = N <= 8): the N bytes reversed.
reverse_convert(src, N) == Written(Reverse(src))

\* WordSwapDecimalColumnSink (S = N in {16, 32}): each 8-byte word reversed.
word_swap_convert(src, N) ==
    Written([j \in 1..N |-> src[((j - 1) \div 8) * 8 + 8 - ((j - 1) % 8)]])

SinkConvert(sk, src) ==
    CASE sk.kind = "bytearray" -> convert_decimal(src, sk.N)
      [] sk.kind = "signextend" -> sign_extend_convert(src, sk.N)
      [] sk.kind = "reverse" -> reverse_convert(src, sk.N)
      [] sk.kind = "wordswap" -> word_swap_convert(src, sk.N)

(***************************************************************************)
(* The driver: the sink operations decode_page0 and decode_page0_filtered  *)
(* issue for a call, in order (specification, section 4.5).                *)
(***************************************************************************)
Op(o, n) == [op |-> o, n |-> n]

\* Definition level of page row r (0-based): 0 is a null; no levels, no nulls.
IsNull(defs, r) == defs # <<>> /\ defs[r + 1] = 0
NonNull(defs, a, b) == Cardinality({r \in a..(b - 1) : ~IsNull(defs, r)})
InFilter(filter, r) == \E k \in 1..Len(filter) : filter[k] = r

RECURSIVE RunLen(_, _, _)
RunLen(defs, r, hi) ==
    IF r + 1 < hi /\ IsNull(defs, r + 1) = IsNull(defs, r)
    THEN 1 + RunLen(defs, r + 1, hi)
    ELSE 1

\* Runs of non-nulls become push_slice(k), runs of nulls push_nulls(k).
RECURSIVE Runs(_, _, _)
Runs(defs, r, hi) ==
    IF r >= hi
    THEN <<>>
    ELSE LET k == RunLen(defs, r, hi)
         IN  <<Op(IF IsNull(defs, r) THEN "push_nulls" ELSE "push_slice", k)>>
                 \o Runs(defs, r + k, hi)

SkipOp(k) == IF k > 0 THEN <<Op("skip", k)>> ELSE <<>>

decode_page0(pg) ==
    <<Op("reserve", pg.row_hi - pg.row_lo)>>
        \o SkipOp(NonNull(pg.defs, 0, pg.row_lo))
        \o Runs(pg.defs, pg.row_lo, pg.row_hi)
        \o <<Op("result", 0)>>

\* Row by row over [row_lo, row_hi): a selected row is pushed (push_null when it
\* is null) after one skip over the values of the rows passed since the last
\* push; with FILL_NULLS every row that is not selected gets a push_null.
RECURSIVE Walk(_, _, _, _)
Walk(pg, FILL_NULLS, r, gap) ==
    IF r >= pg.row_hi
    THEN <<>>
    ELSE IF InFilter(pg.filter, r)
         THEN SkipOp(gap)
                  \o <<Op(IF IsNull(pg.defs, r) THEN "push_null" ELSE "push", 1)>>
                  \o Walk(pg, FILL_NULLS, r + 1, 0)
         ELSE (IF FILL_NULLS THEN <<Op("push_null", 1)>> ELSE <<>>)
                  \o Walk(pg, FILL_NULLS, r + 1,
                          gap + (IF IsNull(pg.defs, r) THEN 0 ELSE 1))

decode_page0_filtered(pg, FILL_NULLS) ==
    <<Op("reserve", pg.row_hi - pg.row_lo)>>
        \o Walk(pg, FILL_NULLS, pg.row_lo, NonNull(pg.defs, 0, pg.row_lo))
        \o <<Op("result", 0)>>

(***************************************************************************)
(* The calls Init draws from.                                              *)
(***************************************************************************)
\* src_len of the fixed-width entry points: invalid below, valid, invalid above.
SrcLens == {0, 1, 2, 33}

Ranges == {rg \in (0..MaxRows) \X (0..MaxRows) : rg[1] <= rg[2]}
DefLevels == {<<>>} \cup [1..MaxRows -> {0, 1}]

RECURSIVE AscSeq(_)
AscSeq(S) ==
    IF S = {}
    THEN <<>>
    ELSE LET m == CHOOSE x \in S : \A y \in S : x <= y
         IN  <<m>> \o AscSeq(S \ {m})
Filters == {AscSeq(S) : S \in SUBSET (0..(MaxRows - 1))}

NoDict == [buffer |-> <<>>, num_values |-> 0, values |-> <<>>]
\* Fixed dictionary pages: empty; 80 00 / 00 01; 05 / FF.
FixedDictPages ==
    { NoDict,
      [buffer |-> <<128, 0, 0, 1>>, num_values |-> 2, values |-> <<>>],
      [buffer |-> <<5, 255>>, num_values |-> 2, values |-> <<>>] }
\* Byte-array dictionary pages, by their values.
VarDictPages ==
    { [buffer |-> <<>>, num_values |-> 2, values |-> << <<5>>, <<255, 128>> >>],
      [buffer |-> <<>>, num_values |-> 2, values |-> << <<1, 0>>, <<>> >>] }

\* data_vec before the call: one row an earlier page left there.
InitialData(tag) == Pad(170, IF target_size(tag) = 0 THEN 1 ELSE target_size(tag))

\* The pages and row arguments of a call: every range, every pattern of
\* definition levels (none: the page has no levels), every ascending filter.
Pages(filtered) ==
    {[row_lo |-> rg[1], row_hi |-> rg[2], defs |-> defs, filter |-> filter] :
        rg \in Ranges, defs \in DefLevels,
        filter \in (IF filtered THEN Filters ELSE {<<>>})}

\* The calls of one entry point: every tag, the given widths and dictionary pages.
CallOf(entry, filtered, src_lens, dicts) ==
    \E tag \in Tags, src_len \in src_lens, dict \in dicts,
       fill \in (IF filtered THEN BOOLEAN ELSE {FALSE}) :
        call = [entry |-> entry, filtered |-> filtered, FILL_NULLS |-> fill,
                tag |-> tag, src_len |-> src_len, dict_page |-> dict,
                initial |-> InitialData(tag)]

InitCall ==
    \/ CallOf("decode_fixed_decimal", FALSE, SrcLens, {NoDict})
    \/ CallOf("decode_fixed_decimal_dict", FALSE, SrcLens, FixedDictPages)
    \/ CallOf("decode_byte_array_decimal", FALSE, {0}, {NoDict})
    \/ CallOf("decode_byte_array_decimal_dict", FALSE, {0}, VarDictPages)
    \/ CallOf("decode_fixed_decimal_filtered", TRUE, SrcLens, {NoDict})
    \/ CallOf("decode_fixed_decimal_filtered_dict", TRUE, SrcLens, FixedDictPages)
    \/ CallOf("decode_byte_array_decimal_filtered", TRUE, {0}, {NoDict})
    \/ CallOf("decode_byte_array_decimal_filtered_dict", TRUE, {0}, VarDictPages)

ConvIdle ==
    /\ c_pc = "idle"
    /\ c_N = 1
    /\ c_src = <<>>
    /\ c_out = NoOut
    /\ c_first = NoFirst

Init ==
    /\ ConvIdle
    /\ InitCall
    /\ page = NoPage
    /\ pc = "call"
    /\ ret = "none"
    /\ data_vec = call.initial
    /\ capacity = Len(call.initial)
    /\ sink = NoSink
    /\ slicer = NoSlicer
    /\ stream = <<>>
    /\ pending = <<>>

(***************************************************************************)
(* Entry points.                                                           *)
(***************************************************************************)
\* return Err(..) before a slicer exists.
Return(e) ==
    /\ pc' = "returned"
    /\ ret' = e
    /\ UNCHANGED <<call, page, data_vec, capacity, sink, slicer, stream, pending, cvars>>

\* return Err(..) of a *_with_slicer function: the slicer was built, nothing read.
ReturnWith(e, sl) ==
    /\ pc' = "returned"
    /\ ret' = e
    /\ slicer' = sl
    /\ UNCHANGED <<call, page, data_vec, capacity, sink, stream, pending, cvars>>

Plan_unfiltered_driver(c, pg) == decode_page0(pg)
Plan(c, pg) ==
    IF c.filtered THEN decode_page0_filtered(pg, c.FILL_NULLS) ELSE decode_page0(pg)

\* decode_page0(page, row_lo, row_hi, &mut sink) or decode_page0_filtered(..)
\* begins: the page and the row arguments are read here for the first time.
Start(sk, sl) ==
    /\ pc' = "driving"
    /\ sink' = sk
    /\ slicer' = sl
    /\ \E pg \in Pages(call.filtered) :
          /\ page' = pg
          /\ pending' = Plan(call, pg)
    /\ UNCHANGED <<call, ret, data_vec, capacity, stream, cvars>>

\* decode_fixed_decimal_N / decode_fixed_decimal_filtered_N (decode_fixed_decimal_impl!)
decode_fixed_decimal_impl(c) ==
    IF c.src_len = 0
    THEN Return("Unsupported")
    ELSE Start(fixed_sink(target_size(c.tag), c.src_len), DynSlicer(c.src_len))

decode_fixed_decimal ==
    /\ pc = "call"
    /\ call.entry = "decode_fixed_decimal"
    /\ IF fixed_validate(call.tag, call.src_len) # "ok"
       THEN Return(fixed_validate(call.tag, call.src_len))
       ELSE decode_fixed_decimal_impl(call)

decode_fixed_decimal_filtered ==
    /\ pc = "call"
    /\ call.entry = "decode_fixed_decimal_filtered"
    /\ IF fixed_validate(call.tag, call.src_len) # "ok"
       THEN Return(fixed_validate(call.tag, call.src_len))
       ELSE decode_fixed_decimal_impl(call)

\* decode_fixed_decimal_with_slicer / decode_fixed_decimal_filtered_with_slicer
decode_fixed_decimal_with_slicer(c, sl) ==
    IF fixed_validate(c.tag, c.src_len) # "ok"
    THEN ReturnWith(fixed_validate(c.tag, c.src_len), sl)
    ELSE Start(fixed_sink(target_size(c.tag), c.src_len), sl)

\* RuntimeFixedDictDecoder::try_new(dict_page, src_len)?, then the slicer with
\* error_value = vec![0u8; src_len], then the dispatcher.
fixed_dict_entry(c) ==
    LET dict_decoder == RuntimeFixedDictDecoder_try_new(c.dict_page, c.src_len)
        error_value == Pad(0, c.src_len)
    IN  IF dict_decoder.err # "none"
        THEN Return(dict_decoder.err)
        ELSE decode_fixed_decimal_with_slicer(c, RleSlicer(dict_decoder, error_value))

decode_fixed_decimal_dict ==
    /\ pc = "call"
    /\ call.entry = "decode_fixed_decimal_dict"
    /\ fixed_dict_entry(call)

decode_fixed_decimal_filtered_dict ==
    /\ pc = "call"
    /\ call.entry = "decode_fixed_decimal_filtered_dict"
    /\ fixed_dict_entry(call)

\* decode_byte_array_decimal_with_slicer / .._filtered_with_slicer
decode_byte_array_decimal_with_slicer(c, sl) ==
    IF target_size(c.tag) = 0
    THEN ReturnWith("Unsupported", sl)
    ELSE Start(byte_array_sink(target_size(c.tag)), sl)

decode_byte_array_decimal ==
    /\ pc = "call"
    /\ call.entry = "decode_byte_array_decimal"
    /\ decode_byte_array_decimal_with_slicer(call, VarSlicer)

decode_byte_array_decimal_filtered ==
    /\ pc = "call"
    /\ call.entry = "decode_byte_array_decimal_filtered"
    /\ decode_byte_array_decimal_with_slicer(call, VarSlicer)

byte_array_dict_entry(c) ==
    LET dict_decoder == VarDictDecoder_try_new(c.dict_page)
    IN  IF dict_decoder.err # "none"
        THEN Return(dict_decoder.err)
        ELSE decode_byte_array_decimal_with_slicer(
                 c, RleSlicer(dict_decoder, DECIMAL_DICT_ERROR_VALUE))

decode_byte_array_decimal_dict ==
    /\ pc = "call"
    /\ call.entry = "decode_byte_array_decimal_dict"
    /\ byte_array_dict_entry(call)

decode_byte_array_decimal_filtered_dict ==
    /\ pc = "call"
    /\ call.entry = "decode_byte_array_decimal_filtered_dict"
    /\ byte_array_dict_entry(call)

(***************************************************************************)
(* Sink operations (impl Pushable for ByteArrayDecimalColumnSink; the      *)
(* fixed-width sinks differ in SinkConvert only).                          *)
(***************************************************************************)
Max(a, b) == IF a >= b THEN a ELSE b

RECURSIVE Concat(_)
Concat(ss) == IF ss = <<>> THEN <<>> ELSE Head(ss) \o Concat(Tail(ss))

Driving(o) == pc = "driving" /\ pending # <<>> /\ Head(pending).op = o

\* let total_bytes = count * N;
total_bytes_rows(count, N) == count
total_bytes(count, N) == count * N

\* for i in 0..count { copy_nonoverlapping(null_value, ptr.add(i * N), N) }
null_run_no_stride(null_value, count) ==
    IF count = 0
    THEN <<>>
    ELSE null_value \o Pad(0, (count - 1) * Len(null_value))
null_run(null_value, count) == Concat([i \in 1..count |-> null_value])

\* (data_vec.reserve(count): rows where bytes are meant)
reserve_rows ==
    /\ Driving("reserve")
    /\ capacity' = Max(capacity, Len(data_vec) + Head(pending).n)
    /\ pending' = Tail(pending)
    /\ UNCHANGED <<call, page, pc, ret, data_vec, sink, slicer, stream, cvars>>
reserve ==
    /\ Driving("reserve")
    /\ capacity' = Max(capacity, Len(data_vec) + Head(pending).n * sink.N)
    /\ pending' = Tail(pending)
    /\ UNCHANGED <<call, page, pc, ret, data_vec, sink, slicer, stream, cvars>>

\* (convert_decimal(src, ptr) without the ?: the error is dropped, the row is not)
push_swallows_error ==
    /\ Driving("push")
    /\ \E e \in NextChoices(slicer) :
          LET r == SinkConvert(sink, e.bytes)
          IN  /\ stream' = Append(stream, e)
              /\ slicer' = SlicerAfter(slicer, <<e>>)
              /\ data_vec' = data_vec \o (IF r.err = "none" THEN r.dest ELSE Pad(0, sink.N))
              /\ pending' = Tail(pending)
              /\ UNCHANGED <<pc, ret>>
    /\ UNCHANGED <<call, page, capacity, sink, cvars>>
push ==
    /\ Driving("push")
    /\ \E e \in NextChoices(slicer) :
          LET r == SinkConvert(sink, e.bytes)
          IN  /\ stream' = Append(stream, e)
              /\ slicer' = SlicerAfter(slicer, <<e>>)
              /\ IF r.err = "none"
                 THEN /\ data_vec' = data_vec \o r.dest
                      /\ pending' = Tail(pending)
                      /\ UNCHANGED <<pc, ret>>
                 ELSE /\ pc' = "returned"
                      /\ ret' = r.err
                      /\ UNCHANGED <<data_vec, pending>>
    /\ UNCHANGED <<call, page, capacity, sink, cvars>>

\* (commits the rows converted before the failing one)
push_slice_commits_converted ==
    /\ Driving("push_slice")
    /\ LET count == Head(pending).n
       IN  \E es \in [1..count -> NextChoices(slicer)] :
              LET out == [c \in 1..count |-> SinkConvert(sink, es[c].bytes)]
                  bad == {c \in 1..count : out[c].err # "none"}
                  stop == IF bad = {} THEN 0 ELSE CHOOSE c \in bad : \A b \in bad : c <= b
                  pulled == IF stop = 0 THEN es ELSE SubSeq(es, 1, stop)
              IN  /\ stream' = stream \o pulled
                  /\ slicer' = SlicerAfter(slicer, pulled)
                  /\ IF stop = 0
                     THEN /\ data_vec' = data_vec \o Concat([c \in 1..count |-> out[c].dest])
                          /\ pending' = Tail(pending)
                          /\ UNCHANGED <<pc, ret>>
                     ELSE /\ pc' = "returned"
                          /\ ret' = out[stop].err
                          /\ data_vec' = data_vec \o
                                 Concat([c \in 1..(stop - 1) |-> out[c].dest])
                          /\ UNCHANGED pending
    /\ UNCHANGED <<call, page, capacity, sink, cvars>>
push_slice ==
    /\ Driving("push_slice")
    /\ LET count == Head(pending).n
       IN  \E es \in [1..count -> NextChoices(slicer)] :
              LET out == [c \in 1..count |-> SinkConvert(sink, es[c].bytes)]
                  bad == {c \in 1..count : out[c].err # "none"}
                  stop == IF bad = {} THEN 0 ELSE CHOOSE c \in bad : \A b \in bad : c <= b
                  pulled == IF stop = 0 THEN es ELSE SubSeq(es, 1, stop)
              IN  /\ stream' = stream \o pulled
                  /\ slicer' = SlicerAfter(slicer, pulled)
                  /\ IF stop = 0
                     THEN /\ data_vec' = data_vec \o
                                 SubSeq(Concat([c \in 1..count |-> out[c].dest]),
                                        1, total_bytes(count, sink.N))
                          /\ pending' = Tail(pending)
                          /\ UNCHANGED <<pc, ret>>
                     ELSE /\ pc' = "returned"
                          /\ ret' = out[stop].err
                          /\ UNCHANGED <<data_vec, pending>>
    /\ UNCHANGED <<call, page, capacity, sink, cvars>>

\* data_vec.extend_from_slice(&self.null_value)
push_null_zeroes ==
    /\ Driving("push_null")
    /\ data_vec' = data_vec \o Pad(0, sink.N)
    /\ capacity' = Max(capacity, Len(data_vec) + sink.N)
    /\ pending' = Tail(pending)
    /\ UNCHANGED <<call, page, pc, ret, sink, slicer, stream, cvars>>
push_null ==
    /\ Driving("push_null")
    /\ data_vec' = data_vec \o sink.null_value
    /\ capacity' = Max(capacity, Len(data_vec) + Len(sink.null_value))
    /\ pending' = Tail(pending)
    /\ UNCHANGED <<call, page, pc, ret, sink, slicer, stream, cvars>>

\* (the pointer taken without .add(base): the run lands on the rows below len)
push_nulls_from_start ==
    /\ Driving("push_nulls")
    /\ LET count == Head(pending).n
           run == null_run(sink.null_value, count)
       IN  data_vec' = [j \in 1..(Len(data_vec) + total_bytes(count, sink.N)) |->
                           IF j <= Len(run) THEN run[j]
                           ELSE IF j <= Len(data_vec) THEN data_vec[j] ELSE 0]
    /\ pending' = Tail(pending)
    /\ UNCHANGED <<call, page, pc, ret, capacity, sink, slicer, stream, cvars>>
push_nulls ==
    /\ Driving("push_nulls")
    /\ LET count == Head(pending).n
       IN  data_vec' = data_vec \o
               SubSeq(null_run(sink.null_value, count), 1, total_bytes(count, sink.N))
    /\ pending' = Tail(pending)
    /\ UNCHANGED <<call, page, pc, ret, capacity, sink, slicer, stream, cvars>>

\* (skip that converts what it passes over and fails on the first bad value)
skip_validates ==
    /\ Driving("skip")
    /\ \E es \in [1..Head(pending).n -> SkipChoices(slicer)] :
          /\ stream' = stream \o es
          /\ IF \E c \in DOMAIN es : es[c].bytes = <<>> \/
                    SinkConvert(sink, es[c].bytes).err # "none"
             THEN /\ pc' = "returned"
                  /\ ret' = "Unsupported"
                  /\ UNCHANGED pending
             ELSE /\ pending' = Tail(pending)
                  /\ UNCHANGED <<pc, ret>>
    /\ UNCHANGED <<call, page, data_vec, capacity, sink, slicer, cvars>>

\* self.slicer.skip(count)
skip_keeps_position ==
    /\ Driving("skip")
    /\ pending' = Tail(pending)
    /\ UNCHANGED <<call, page, pc, ret, data_vec, capacity, sink, slicer, stream, cvars>>
skip ==
    /\ Driving("skip")
    /\ \E es \in [1..Head(pending).n -> SkipChoices(slicer)] : stream' = stream \o es
    /\ pending' = Tail(pending)
    /\ UNCHANGED <<call, page, pc, ret, data_vec, capacity, sink, slicer, cvars>>

\* self.slicer.result(): the deferred "dictionary index out of range".
result_ignores_slicer ==
    /\ Driving("result")
    /\ pc' = "returned"
    /\ ret' = "Ok"
    /\ pending' = Tail(pending)
    /\ UNCHANGED <<call, page, data_vec, capacity, sink, slicer, stream, cvars>>
result ==
    /\ Driving("result")
    /\ pc' = "returned"
    /\ ret' = IF slicer.error THEN "Layout" ELSE "Ok"
    /\ pending' = Tail(pending)
    /\ UNCHANGED <<call, page, data_vec, capacity, sink, slicer, stream, cvars>>

Next ==
    \/ decode_fixed_decimal
    \/ decode_fixed_decimal_dict
    \/ decode_byte_array_decimal
    \/ decode_byte_array_decimal_dict
    \/ decode_fixed_decimal_filtered
    \/ decode_fixed_decimal_filtered_dict
    \/ decode_byte_array_decimal_filtered
    \/ decode_byte_array_decimal_filtered_dict
    \/ reserve
    \/ push
    \/ push_slice
    \/ push_null
    \/ push_nulls
    \/ skip
    \/ result

Spec == Init /\ [][Next]_vars

(***************************************************************************)
(* Integers wider than the model checker's 32-bit integers, as a sign and the*)
(* base-256 digits of the magnitude without leading zeros: two byte        *)
(* strings denote the same integer exactly when these are equal.           *)
(***************************************************************************)
RECURSIVE StripZeros(_)
StripZeros(s) ==
    IF s = <<>> THEN <<>> ELSE IF s[1] = 0 THEN StripZeros(Tail(s)) ELSE s

\* s + 1 on big-endian digits, the carry out of the top digit dropped.
RECURSIVE AddOne(_)
AddOne(s) ==
    IF s = <<>>
    THEN <<>>
    ELSE LET n == Len(s)
         IN  IF s[n] < 255
             THEN [s EXCEPT ![n] = s[n] + 1]
             ELSE Append(AddOne(SubSeq(s, 1, n - 1)), 0)

\* A big-endian two's-complement byte string as an integer: a negative one has
\* the magnitude 2^(8 * Len) - unsigned = (every byte inverted) + 1.
BEValue(s) ==
    IF s[1] >= 128
    THEN [neg |-> TRUE, mag |-> StripZeros(AddOne([i \in 1..Len(s) |-> 255 - s[i]]))]
    ELSE [neg |-> FALSE, mag |-> StripZeros(s)]

\* A little-endian two's-complement byte string as an integer.
LEValue(d) == BEValue(Reverse(d))

Converted == c_pc \in {"converted", "reconverted"}

\* C1: overflow law. For a source longer than the target (S > N) the conversion
\* succeeds exactly when the S - N leading bytes all equal the sign byte of src[0]
\* and the high bit of the first retained byte src[S - N] equals the sign bit;
\* every other such source is refused with Unsupported and nothing written.
C1_OverflowLaw ==
    (Converted /\ Len(c_src) > c_N) =>
        LET S == Len(c_src)
            sign == IF c_src[1] >= 128 THEN 255 ELSE 0
            fits == /\ \A k \in 1..(S - c_N) : c_src[k] = sign
                    /\ (c_src[S - c_N + 1] >= 128) <=> (c_src[1] >= 128)
        IN  /\ (c_out.err = "none") <=> fits
            /\ c_out.err = "none" => Len(c_out.dest) = c_N
            /\ c_out.err # "none" => (c_out.err = "Unsupported" /\ c_out.dest = <<>>)

\* Row 5 of the scenario table: FF FF FF FF 7F FF FF FF to 4 bytes is refused.
C1_Witness ==
    /\ c_pc = "converted"
    /\ c_N = 4
    /\ c_src = <<255, 255, 255, 255, 127, 255, 255, 255>>
    /\ c_out.err = "Unsupported"

\* C2: value preservation for single-word targets. For N in {1, 2, 4, 8} and a
\* source of S >= 1 bytes on which the conversion succeeds, the N bytes written,
\* read as a little-endian two's-complement integer, equal the source read as a
\* big-endian two's-complement integer (S < N, S = N and S > N alike).
C2_ValuePreserved ==
    (Converted /\ c_N <= 8 /\ Len(c_src) >= 1 /\ c_out.err = "none") =>
        /\ Len(c_out.dest) = c_N
        /\ LEValue(c_out.dest) = BEValue(c_src)

\* A negative source narrower than the target: 80 01 (-32767) widened to 8 bytes.
C2_Witness ==
    /\ c_pc = "converted"
    /\ c_N = 8
    /\ c_src = <<128, 1>>
    /\ c_out.dest = <<1, 128, 255, 255, 255, 255, 255, 255>>
    /\ BEValue(c_src) = [neg |-> TRUE, mag |-> <<127, 255>>]

\* The effective source widened to N bytes: the sign bytes a shorter source
\* lacks are prepended, the sign bytes a longer one carries are dropped.
Widened(src, N) ==
    IF Len(src) <= N
    THEN Pad(IF src[1] >= 128 THEN 255 ELSE 0, N - Len(src)) \o src
    ELSE SubSeq(src, Len(src) - N + 1, Len(src))

\* C3 as stated: for N in {16, 32} the N/8 words are ordered least-significant
\* first, each little-endian, so the N bytes are the widened source reversed and
\* 00 00 00 00 00 00 00 01 to N = 16 gives word0 = 01 00 .. 00, word1 = 00 .. 00.
C3_LowWordFirst ==
    (Converted /\ c_N > 8 /\ c_out.err = "none") =>
        c_out.dest = Reverse(Widened(c_src, c_N))

\* C3 amended: for N in {16, 32} the N/8 words are ordered most-significant
\* first: word w (at byte offset 8 * w) holds bytes 8w .. 8w + 7 of the widened
\* big-endian source, least-significant byte first.
C3_HighWordFirst ==
    (Converted /\ c_N > 8 /\ c_out.err = "none") =>
        /\ Len(c_out.dest) = c_N
        /\ \A w \in 0..(c_N \div 8 - 1) : \A i \in 1..8 :
               c_out.dest[8 * w + i] = Widened(c_src, c_N)[8 * w + 9 - i]
        /\ (c_src = <<0, 0, 0, 0, 0, 0, 0, 1>> /\ c_N = 16) =>
               c_out.dest = Pad(0, 8) \o <<1>> \o Pad(0, 7)

\* Row 4 of the scenario table as the code writes it: the 01 lands in word1.
C3_Witness ==
    /\ c_pc = "converted"
    /\ c_N = 16
    /\ c_src = <<0, 0, 0, 0, 0, 0, 0, 1>>
    /\ c_out.err = "none"
    /\ SubSeq(c_out.dest, 1, 8) = Pad(0, 8)
    /\ SubSeq(c_out.dest, 9, 16) = <<1, 0, 0, 0, 0, 0, 0, 0>>

\* C4: sign-extension law. For a source of 1 <= S < N bytes, converting it and
\* converting the N-byte source made by prepending N - S copies of its sign byte
\* both succeed and write the same N bytes.
C4_SignExtensionLaw ==
    c_pc = "reconverted" =>
        /\ Len(c_src) = c_N
        /\ c_first.out.err = "none"
        /\ c_out.err = "none"
        /\ c_out.dest = c_first.out.dest

\* A negative 2-byte source and a 32-byte target: FF 7F, then 30 FF bytes and FF 7F.
C4_Witness ==
    /\ c_pc = "reconverted"
    /\ c_N = 32
    /\ c_first.src = <<255, 127>>
    /\ c_src = Pad(255, 30) \o <<255, 127>>
    /\ c_out.dest = c_first.out.dest
    /\ c_out.dest[8] = 255

(***************************************************************************)
(* The rows a decode call outputs, and what each of them has to hold.      *)
(***************************************************************************)
\* The page rows the call appends one output row for, in output order.
OutRows ==
    IF call.filtered /\ ~call.FILL_NULLS
    THEN AscSeq({r \in page.row_lo..(page.row_hi - 1) : InFilter(page.filter, r)})
    ELSE [i \in 1..(page.row_hi - page.row_lo) |-> page.row_lo + i - 1]

\* Output rows appended so far.
Decoded == (Len(data_vec) - Len(call.initial)) \div sink.N
OutRow(i) ==
    SubSeq(data_vec, Len(call.initial) + (i - 1) * sink.N + 1,
           Len(call.initial) + i * sink.N)

\* Page row r carries a value: it is not null and, in a filtered decode, selected.
Selected(r) == ~call.filtered \/ InFilter(page.filter, r)
HasValue(r) == Selected(r) /\ ~IsNull(page.defs, r)
\* The stream position of the value stored at page row r: nulls store none.
ValuePos(r) == NonNull(page.defs, 0, r) + 1

\* Every output row appended so far is the conversion of the value stored at
\* its page row, or the null value when that row is null or not selected.
RowsAsExpected ==
    /\ Decoded <= Len(OutRows)
    /\ \A i \in 1..Decoded :
          LET r == OutRows[i]
          IN  IF HasValue(r)
              THEN /\ ValuePos(r) <= Len(stream)
                   /\ stream[ValuePos(r)].read
                   /\ OutRow(i) = SinkConvert(sink, stream[ValuePos(r)].bytes).dest
              ELSE OutRow(i) = NullValue(sink.N)

\* C5: output geometry. The length of data_vec is a multiple of N after every
\* sink operation, and after a successful call the growth is N * (row_hi - row_lo)
\* for an unfiltered decode or a filtered one with FILL_NULLS, and N times the
\* number of filter entries f with row_lo <= f < row_hi for a filtered decode
\* without FILL_NULLS.
C5_OutputGeometry ==
    sink # NoSink =>
        LET N == sink.N
            growth == Len(data_vec) - Len(call.initial)
            in_range == {k \in 1..Len(page.filter) :
                            page.row_lo <= page.filter[k] /\ page.filter[k] < page.row_hi}
        IN  /\ N = target_size(call.tag)
            /\ Len(data_vec) % N = 0
            /\ growth % N = 0
            /\ ret = "Ok" =>
                   growth = IF call.filtered /\ ~call.FILL_NULLS
                            THEN N * Cardinality(in_range)
                            ELSE N * (page.row_hi - page.row_lo)

\* A filtered Decimal32 decode without FILL_NULLS over rows [1, 2) with the filter
\* [0, 1]: one filter entry is in range, so the call appends 4 bytes.
C5_Witness ==
    /\ ret = "Ok"
    /\ call.filtered /\ ~call.FILL_NULLS
    /\ call.tag = "Decimal32"
    /\ page.row_lo = 1 /\ page.row_hi = 2
    /\ page.filter = <<0, 1>>
    /\ Len(data_vec) = Len(call.initial) + 4

\* C6: null positions. In an unfiltered decode over [row_lo, row_hi) output row i
\* is the N bytes of the null value when page row row_lo + i is null and the
\* conversion of the j-th value of the stream when it is the j-th non-null row of
\* the page; null rows take no value from the slicer.
C6_NullPositions ==
    (sink # NoSink /\ ~call.filtered) =>
        /\ RowsAsExpected
        /\ ret # "Unsupported" =>
               Cardinality({k \in 1..Len(stream) : stream[k].read}) =
                   NonNull(page.defs, page.row_lo, page.row_lo + Decoded)
        /\ ret \in {"Ok", "Layout"} =>
               /\ Decoded = page.row_hi - page.row_lo
               /\ Len(stream) = NonNull(page.defs, 0, page.row_hi)

\* Row 8 of the scenario table: one null, then 05 (S = 1), to Decimal16.
C6_Witness ==
    /\ ret = "Ok"
    /\ call.entry = "decode_fixed_decimal"
    /\ call.tag = "Decimal16" /\ call.src_len = 1
    /\ page.row_lo = 0 /\ page.row_hi = 2
    /\ IsNull(page.defs, 0) /\ ~IsNull(page.defs, 1)
    /\ stream = <<Entry(-1, <<5>>)>>
    /\ data_vec = call.initial \o <<0, 128>> \o <<5, 0>>

InvalidFixedArgs ==
    \/ call.tag \notin {"Decimal8", "Decimal16", "Decimal32",
                        "Decimal64", "Decimal128", "Decimal256"}
    \/ call.src_len = 0
    \/ call.src_len > 32

Untouched ==
    /\ data_vec = call.initial
    /\ capacity = Len(call.initial)
    /\ sink = NoSink
    /\ stream = <<>>
    /\ pending = <<>>

\* C8: decode_fixed_decimal and decode_fixed_decimal_filtered called with a tag
\* that is not a decimal tag, or with src_len = 0 or src_len > 32, return
\* Unsupported, leave data_vec as it was, create no slicer and issue no sink
\* operation.
C8_PlainValidatesFirst ==
    (/\ call.entry \in {"decode_fixed_decimal", "decode_fixed_decimal_filtered"}
     /\ InvalidFixedArgs) =>
        /\ pc \in {"call", "returned"}
        /\ pc = "returned" => ret = "Unsupported"
        /\ Untouched
        /\ slicer = NoSlicer

\* decode_fixed_decimal_filtered to Decimal64 with src_len = 33 has returned.
C8_Witness ==
    /\ pc = "returned"
    /\ call.entry = "decode_fixed_decimal_filtered"
    /\ call.tag = "Decimal64" /\ call.src_len = 33
    /\ ret = "Unsupported"
    /\ data_vec = call.initial

\* C9 as stated: decode_fixed_decimal_dict and decode_fixed_decimal_filtered_dict
\* called with src_len outside [1, 32] or with a tag that is not a decimal tag
\* fail with Unsupported, for every dictionary page, before any buffer mutation.
C9_DictInvalidIsUnsupported ==
    (/\ call.entry \in {"decode_fixed_decimal_dict", "decode_fixed_decimal_filtered_dict"}
     /\ InvalidFixedArgs
     /\ pc = "returned") =>
        /\ ret = "Unsupported"
        /\ Untouched

\* The stream positions that hold an index outside the dictionary.
BadAt(k) == slicer.kind = "rle" /\ stream[k].idx >= dict_len(slicer.dict)
ContainsBadIndex == \E k \in 1..Len(stream) : BadAt(k)
MaterialisedBadIndex == \E k \in 1..Len(stream) : BadAt(k) /\ stream[k].read

\* The call filled the whole column and then failed with Layout; every position
\* of a bad index holds the conversion of the slicer's error_value.
FilledThenLayout ==
    /\ ret = "Layout"
    /\ pending = <<>>
    /\ Decoded = Len(OutRows)
    /\ RowsAsExpected
    /\ \A i \in 1..Decoded :
          (HasValue(OutRows[i]) /\ BadAt(ValuePos(OutRows[i]))) =>
              OutRow(i) = SinkConvert(sink, slicer.error_value).dest

C11_NoAppendOnFailure ==
    [][(pc = "driving" /\ ret' = "Unsupported") =>
           /\ Head(pending).op \in {"push", "push_slice"}
           /\ Len(stream') > Len(stream)
           /\ SinkConvert(sink, stream'[Len(stream')].bytes).err = "Unsupported"
           /\ \A k \in (Len(stream) + 1)..(Len(stream') - 1) :
                  SinkConvert(sink, stream'[k].bytes).err = "none"
           /\ data_vec' = data_vec
           /\ pc' = "returned"]_vars

\* push_slice(2) of an unfiltered byte-array decode to Decimal16 converted 05 and
\* then met a zero-length value: nothing of the slice is in data_vec.
C11_Witness ==
    /\ pc = "returned" /\ ret = "Unsupported"
    /\ call.entry = "decode_byte_array_decimal"
    /\ call.tag = "Decimal16"
    /\ page.row_lo = 0 /\ page.row_hi = 2 /\ page.defs = <<>>
    /\ pending # <<>> /\ Head(pending) = Op("push_slice", 2)
    /\ stream = <<Entry(-1, <<5>>), Entry(-1, <<>>)>>
    /\ data_vec = call.initial

\* Values read by push / push_slice so far, and output rows that hold a value.
ReadCount == Cardinality({k \in 1..Len(stream) : stream[k].read})
ValueRows == Cardinality({i \in 1..Decoded : HasValue(OutRows[i])})

\* C12: a zero-length byte-array value is rejected. For every target width
\* convert_decimal refuses the empty source with Unsupported and writes nothing,
\* and a byte-array decode that materialises a zero-length value fails with
\* Unsupported at that value, which gets no output row.
C12_ZeroLengthRejected ==
    /\ \A N \in TargetSizes :
          /\ convert_decimal(<<>>, N).err = "Unsupported"
          /\ convert_decimal(<<>>, N).dest = <<>>
    /\ sink # NoSink /\ sink.kind = "bytearray" =>
          \A k \in 1..Len(stream) :
              (stream[k].read /\ stream[k].bytes = <<>>) =>
                  /\ pc = "returned"
                  /\ ret = "Unsupported"
                  /\ k = Len(stream)
                  /\ ValueRows < ReadCount

\* A byte-array dictionary {01 00, empty} decoded to Decimal64: index 1 at the
\* first row resolves to the zero-length value and the call fails.
C12_Witness ==
    /\ pc = "returned" /\ ret = "Unsupported"
    /\ call.entry = "decode_byte_array_decimal_dict"
    /\ call.tag = "Decimal64"
    /\ stream = <<Entry(1, <<>>)>>
    /\ data_vec = call.initial

\* C13 as stated: the byte-array entry points bound the source width by 32, so a
\* byte-array value longer than 32 bytes is rejected with Unsupported and never
\* converted.
C13_LongValueRejected ==
    (sink # NoSink /\ sink.kind = "bytearray") =>
        \A k \in 1..Len(stream) :
            (stream[k].read /\ Len(stream[k].bytes) > 32) =>
                /\ pc = "returned"
                /\ ret = "Unsupported"
                /\ k = Len(stream)
                /\ ValueRows < ReadCount

FixedDictCall ==
    call.entry \in {"decode_fixed_decimal_dict", "decode_fixed_decimal_filtered_dict"}

\* C14: fixed dictionary well-formedness. RuntimeFixedDictDecoder::try_new
\* returns Layout unless value_size > 0 and value_size * num_values =
\* buffer.len(); a decoder that was constructed has len() = num_values, and for
\* every index i < len() get_dict_value(i) is buffer[i * value_size ..
\* (i + 1) * value_size], inside the buffer.
C14_FixedDictWellFormed ==
    (FixedDictCall /\ pc # "call") =>
        LET buffer == call.dict_page.buffer
            num_values == call.dict_page.num_values
            value_size == call.src_len
        IN  IF value_size > 0 /\ value_size * num_values = Len(buffer)
            THEN /\ slicer.kind = "rle"
                 /\ slicer.dict.err = "none"
                 /\ fixed_dict_len(slicer.dict) = num_values
                 /\ \A i \in 0..(fixed_dict_len(slicer.dict) - 1) :
                        LET v == get_dict_value(slicer.dict, i)
                        IN  /\ Len(v) = value_size
                            /\ (i + 1) * value_size <= Len(buffer)
                            /\ \A j \in 1..value_size : v[j] = buffer[i * value_size + j]
                 /\ \A k \in 1..Len(stream) :
                        (stream[k].read /\ stream[k].idx < num_values) =>
                            stream[k].bytes =
                                [j \in 1..value_size |->
                                    buffer[stream[k].idx * value_size + j]]
            ELSE /\ pc = "returned"
                 /\ ret = "Layout"
                 /\ slicer = NoSlicer
                 /\ Untouched

\* The dictionary 80 00 / 00 01 with value_size = 2: index 1 has resolved to 00 01.
C14_Witness ==
    /\ FixedDictCall
    /\ call.src_len = 2
    /\ call.dict_page.buffer = <<128, 0, 0, 1>>
    /\ slicer.kind = "rle"
    /\ fixed_dict_len(slicer.dict) = 2
    /\ stream = <<Entry(1, <<0, 1>>)>>

\* The source is the minimum signed value of width N: 80 00 .. 00 once widened.
IsMinimum(src, N) == Len(src) >= 1 /\ Widened(src, N) = <<128>> \o Pad(0, N - 1)

\* C15 as stated: no successful conversion of a non-null source value produces
\* the N bytes of NULL_N, so a row of a decoded column equals NULL_N if and only
\* if the driver issued push_null / push_nulls for it.
C15_NullNeverDecoded ==
    sink # NoSink =>
        /\ \A k \in 1..Len(stream) :
              (stream[k].read /\ SinkConvert(sink, stream[k].bytes).err = "none") =>
                  SinkConvert(sink, stream[k].bytes).dest # NullValue(sink.N)
        /\ RowsAsExpected
        /\ \A i \in 1..Decoded :
              OutRow(i) = NullValue(sink.N) <=> ~HasValue(OutRows[i])

\* The minimum signed value of every width converts to the bytes of NULL_N.
MinimumConvertsToNull ==
    \A N \in TargetSizes :
        convert_decimal(<<128>> \o Pad(0, N - 1), N).dest = NullValue(N)

\* C15 amended: a successful conversion of a non-null source value produces the
\* N bytes of NULL_N if and only if the source is the minimum signed value of
\* width N, so a row of a decoded column equals NULL_N if and only if the driver
\* issued push_null / push_nulls for it or its value is that minimum.
C15_NullOnlyForMinimum ==
    /\ MinimumConvertsToNull
    /\ sink # NoSink =>
          /\ \A k \in 1..Len(stream) :
                LET r == SinkConvert(sink, stream[k].bytes)
                IN  (stream[k].read /\ r.err = "none") =>
                        (r.dest = NullValue(sink.N)
                            <=> IsMinimum(stream[k].bytes, sink.N))
          /\ RowsAsExpected
          /\ \A i \in 1..Decoded :
                OutRow(i) = NullValue(sink.N) <=>
                    (HasValue(OutRows[i]) =>
                        IsMinimum(stream[ValuePos(OutRows[i])].bytes, sink.N))

\* Row 3 of the scenario table through a dictionary: 80 00 decoded to Decimal16
\* is 00 80, the bytes of NULL_16, in a row that is not null.
C15_Witness ==
    /\ ret = "Ok"
    /\ FixedDictCall
    /\ call.tag = "Decimal16" /\ call.src_len = 2
    /\ page.row_lo = 0 /\ page.row_hi = 1 /\ page.defs = <<>>
    /\ stream = <<Entry(0, <<128, 0>>)>>
    /\ data_vec = call.initial \o NullValue(2)

(***************************************************************************)
(* The operations of a plan, row by row.                                   *)
(***************************************************************************)
\* The rows an operation covers, one event each: "value" for a row pushed,
\* "null" for a null appended, "skip" for a value passed over.
OpEvents(o) ==
    CASE o.op \in {"push", "push_slice"} -> [i \in 1..o.n |-> "value"]
      [] o.op \in {"push_null", "push_nulls"} -> [i \in 1..o.n |-> "null"]
      [] o.op = "skip" -> [i \in 1..o.n |-> "skip"]
      [] OTHER -> <<>>
Events(P) == Concat([k \in 1..Len(P) |-> OpEvents(P[k])])
IsOutput(e) == e \in {"value", "null"}
TakesValue(e) == e \in {"value", "skip"}

RECURSIVE SumCounts(_)
SumCounts(P) ==
    IF P = <<>>
    THEN 0
    ELSE (IF Head(P).op \in {"push", "push_slice", "push_null", "push_nulls", "skip"}
          THEN Head(P).n ELSE 0) + SumCounts(Tail(P))

\* reserve comes first, result() exactly once and last.
ResultOnceLast(P) ==
    /\ Len(P) >= 2
    /\ P[1].op = "reserve"
    /\ P[Len(P)].op = "result"
    /\ \A k \in 1..(Len(P) - 1) : P[k].op # "result"

\* The driver has just been entered: pending is everything it will issue.
Entered == pc = "driving" /\ pending # <<>> /\ Head(pending).op = "reserve"

\* The page row whose value is the j-th of the stream.
ValueRowAt(j) ==
    CHOOSE r \in 0..(Len(page.defs) + j) : ~IsNull(page.defs, r) /\ ValuePos(r) = j
InRange(r) == page.row_lo <= r /\ r < page.row_hi

\* The driver issues its operations in order, one per step; a failing push or
\* push_slice ends the call with the rest not issued.
InPlanOrder ==
    [][pc = "driving" =>
           \/ pending' = Tail(pending)
           \/ /\ pc' = "returned" /\ ret' = "Unsupported"
              /\ Head(pending).op \in {"push", "push_slice"}
              /\ pending' = pending]_vars

C17_DictEqualsPlain ==
    (/\ FixedDictCall
     /\ sink # NoSink
     /\ \A k \in 1..Len(stream) : stream[k].read => ~BadAt(k)) =>
        LET S == call.src_len
            plain == fixed_sink(target_size(call.tag), S)
            Expanded(k) ==
                SubSeq(call.dict_page.buffer, stream[k].idx * S + 1, (stream[k].idx + 1) * S)
        IN  /\ Decoded <= Len(OutRows)
            /\ \A i \in 1..Decoded :
                   OutRow(i) =
                       IF HasValue(OutRows[i])
                       THEN SinkConvert(plain, Expanded(ValuePos(OutRows[i]))).dest
                       ELSE plain.null_value
            /\ ret = "Ok" => Decoded = Len(OutRows)
            /\ ret # "Unsupported" =>
                   \A k \in 1..Len(stream) :
                       stream[k].read => SinkConvert(plain, Expanded(k)).err = "none"
            /\ ret = "Unsupported" =>
                   SinkConvert(plain, Expanded(Len(stream))).err = "Unsupported"

\* Row 7 of the scenario table on two rows: the dictionary 80 00 / 00 01 with the
\* indices 0, 1 decoded to Decimal16 gives 00 80 / 01 00.
C17_Witness ==
    /\ ret = "Ok"
    /\ call.entry = "decode_fixed_decimal_dict"
    /\ call.tag = "Decimal16" /\ call.src_len = 2
    /\ call.dict_page.buffer = <<128, 0, 0, 1>>
    /\ page.row_lo = 0 /\ page.row_hi = 2 /\ page.defs = <<>>
    /\ Len(stream) = 2 /\ stream[1].idx = 0 /\ stream[2].idx = 1
    /\ data_vec = call.initial \o <<0, 128>> \o <<1, 0>>

\* C18: multi-word write-out. For N in {16, 32}, the effective source src_eff of
\* Seff <= N bytes and sign_prefix = N - Seff, the byte at destination offset
\* w * 8 + i is the sign byte when p = w * 8 + 7 - i < sign_prefix and
\* src_eff[p - sign_prefix] otherwise; every offset in [0, N) is written exactly
\* once and every source index read lies in [0, Seff).
C18_WordWriteOut ==
    (Converted /\ c_N > 8 /\ c_out.err = "none") =>
        LET src_eff == IF Len(c_src) > c_N
                       THEN SubSeq(c_src, Len(c_src) - c_N + 1, Len(c_src))
                       ELSE c_src
            Seff == Len(src_eff)
            sign_prefix == c_N - Seff
            sign == IF src_eff[1] >= 128 THEN 255 ELSE 0
            steps == write_words_steps(src_eff, c_N)
        IN  /\ Seff >= 1 /\ Seff <= c_N
            /\ Len(c_out.dest) = c_N
            /\ \A w \in 0..(c_N \div 8 - 1) : \A i \in 0..7 :
                   LET p == w * 8 + 7 - i
                   IN  c_out.dest[w * 8 + i + 1] =
                           IF p < sign_prefix THEN sign ELSE src_eff[p - sign_prefix + 1]
            /\ \A o \in 0..(c_N - 1) :
                   Cardinality({t \in 1..Len(steps) : steps[t].off = o}) = 1
            /\ \A t \in 1..Len(steps) :
                   /\ steps[t].off \in 0..(c_N - 1)
                   /\ steps[t].read = -1 \/ steps[t].read \in 0..(Seff - 1)
                   /\ c_out.dest[steps[t].off + 1] = steps[t].byte

\* 80 01 to 16 bytes: sign_prefix = 14, word 0 is all sign bytes and word 1 is
\* 01 80 and six sign bytes.
C18_Witness ==
    /\ c_pc = "converted"
    /\ c_N = 16
    /\ c_src = <<128, 1>>
    /\ c_out.dest = Pad(255, 8) \o <<1, 128>> \o Pad(255, 6)

\* C19: frame conditions of the sink operations. skip(n) advances the slicer by
\* n values and leaves data_vec unchanged; push_null and push_nulls(n) append N
\* and n * N bytes and leave the slicer where it was; no sink operation changes
\* a byte of data_vec below the length it had when the operation started.
KeepsRowsBelow ==
    /\ Len(data_vec') >= Len(data_vec)
    /\ SubSeq(data_vec', 1, Len(data_vec)) = data_vec

C19_FrameConditions ==
    [][ /\ pc = "driving" => KeepsRowsBelow
        /\ Driving("skip") =>
              /\ data_vec' = data_vec
              /\ Len(stream') = Len(stream) + Head(pending).n
              /\ SubSeq(stream', 1, Len(stream)) = stream
        /\ Driving("push_null") =>
              /\ Len(data_vec') = Len(data_vec) + sink.N
              /\ stream' = stream
              /\ slicer' = slicer
        /\ Driving("push_nulls") =>
              /\ Len(data_vec') = Len(data_vec) + Head(pending).n * sink.N
              /\ stream' = stream
              /\ slicer' = slicer
      ]_vars

\* Rows [1, 2) of a page whose row 0 has a value and whose row 1 is null:
\* skip(1) passed over one value, push_nulls(1) appended one null after the
\* row that was there.
C19_Witness ==
    /\ pc = "returned"
    /\ ret = "Ok"
    /\ ~call.filtered
    /\ sink.kind = "bytearray"
    /\ page.row_lo = 1
    /\ Len(stream) = 1
    /\ ~stream[1].read
    /\ Len(call.initial) > 0
    /\ data_vec = call.initial \o sink.null_value

\* C20: fail-fast propagation. After the first converter error (overflow or zero
\* length) of a decode call no further value is pulled from the slicer, no
\* further byte is appended to data_vec and the call returns that Unsupported
\* error; only an out-of-range dictionary index waits for result().
FailedAt(k) ==
    /\ stream[k].read
    /\ SinkConvert(sink, stream[k].bytes).err # "none"

ConverterFailed == \E k \in 1..Len(stream) : FailedAt(k)

C20_FailFast ==
    /\ [](\A k \in 1..Len(stream) :
             FailedAt(k) =>
                 /\ k = Len(stream)
                 /\ pc = "returned"
                 /\ ret = SinkConvert(sink, stream[k].bytes).err
                 /\ ret = "Unsupported")
    /\ []((pc = "returned" /\ stream # <<>> /\ ~ConverterFailed) =>
             /\ pending = <<>>
             /\ ret = IF MaterialisedBadIndex THEN "Layout" ELSE "Ok")
    /\ [][ConverterFailed => UNCHANGED <<data_vec, stream, slicer, pending, pc, ret>>]_vars

\* Two rows with values, the first one does not fit: one value was pulled, the
\* push_slice(2) and result() of the plan are still pending, nothing was appended.
C20_Witness ==
    /\ pc = "returned"
    /\ ret = "Unsupported"
    /\ page.row_hi - page.row_lo = 2
    /\ page.defs = <<>>
    /\ ~call.filtered
    /\ Len(stream) = 1
    /\ FailedAt(1)
    /\ Len(pending) = 2
    /\ data_vec = call.initial

\* C21: writes stay inside the reservation. After the one reserve(row_hi - row_lo)
\* of the driver, every push, push_slice and push_nulls finds
\* base + bytes written <= data_vec.capacity() when it writes, in the unfiltered,
\* the compact and the FILL_NULLS decode: no debug_assert of the sink fails, and
\* the length never passes the capacity.
BytesOf(o) ==
    CASE o.op = "push" -> sink.N
      [] o.op = "push_slice" -> o.n * sink.N
      [] o.op = "push_nulls" -> o.n * sink.N
      [] OTHER -> 0

C21_WritesInsideReservation ==
    /\ Len(data_vec) <= capacity
    /\ (pc = "driving" /\ pending # <<>>) =>
           Len(data_vec) + BytesOf(Head(pending)) <= capacity

\* FILL_NULLS over rows [0, 2) with row 1 selected: the push_null of row 0 and
\* the push of row 1 filled the reservation of two rows to the last byte.
C21_Witness ==
    /\ pc = "returned"
    /\ ret = "Ok"
    /\ call.filtered
    /\ call.FILL_NULLS
    /\ sink.kind = "bytearray"
    /\ sink.N = 2
    /\ page.row_lo = 0
    /\ page.row_hi = 2
    /\ page.filter = <<1>>
    /\ \E k \in 1..Len(stream) : stream[k].read
    /\ Len(data_vec) = Len(call.initial) + 2 * sink.N
    /\ capacity = Len(data_vec)

\* C22: the dictionary error placeholder never fails conversion. The placeholder
\* of an out-of-range index (src_len zero bytes on the fixed paths, the one byte
\* 00 on the byte-array paths) converts to N zero bytes for every target width
\* and every src_len in 1..32, src_len > N included; an out-of-range index alone
\* ends as the deferred Layout error, never as Unsupported.
\* The widest source the fixed-width entry points accept (src_len > 32 is refused).
MaxSrcLen == 32

ZeroRow(r, N) == r.err = "none" /\ r.dest = Pad(0, N)

PlaceholderConverts ==
    /\ \A N \in TargetSizes : ZeroRow(convert_decimal(DECIMAL_DICT_ERROR_VALUE, N), N)
    /\ \A N \in TargetSizes : \A S \in 1..MaxSrcLen :
           /\ ZeroRow(SinkConvert(fixed_sink(N, S), Pad(0, S)), N)
           /\ ZeroRow(convert_decimal(Pad(0, S), N), N)

PlaceholderRows ==
    /\ PlaceholderConverts
    /\ \A k \in 1..Len(stream) :
           (BadAt(k) /\ stream[k].read) =>
               /\ stream[k].bytes = slicer.error_value
               /\ stream[k].bytes =
                      IF sink.kind = "bytearray" THEN <<0>> ELSE Pad(0, call.src_len)
               /\ ZeroRow(SinkConvert(sink, stream[k].bytes), sink.N)
    /\ (pc = "returned" /\ MaterialisedBadIndex) =>
           \/ ret = "Layout" /\ pending = <<>>
           \/ /\ ret = "Unsupported"
              /\ FailedAt(Len(stream))
              /\ ~BadAt(Len(stream))

\* The operation whose last pulled value is a placeholder does not end the call.
PlaceholderPulled ==
    /\ Len(stream') > Len(stream)
    /\ stream'[Len(stream')].read
    /\ slicer.kind = "rle"
    /\ stream'[Len(stream')].idx >= dict_len(slicer.dict)

C22_PlaceholderNeverFails ==
    /\ []PlaceholderRows
    /\ [][PlaceholderPulled => (pc' = "driving" /\ ret' = "none" /\ pending' = Tail(pending))]_vars

\* A dictionary of two 2-byte values read into Decimal8 (src_len > N): index 2 is
\* out of range, the placeholder 00 00 became the row 00, the call ends in Layout.
C22_Witness ==
    /\ pc = "returned"
    /\ ret = "Layout"
    /\ call.entry = "decode_fixed_decimal_dict"
    /\ call.src_len = 2
    /\ Len(stream) = 1
    /\ sink.N = 1
    /\ stream[1].read
    /\ BadAt(1)
    /\ stream[1].bytes = <<0, 0>>
    /\ data_vec = call.initial \o <<0>>

\* C23: skipped values are never validated. A value the driver passes over with
\* skip(n) (rows before row_lo, rows a filter does not select) is not converted:
\* a zero-length or overflowing value there does not fail the decode and does
\* not change the bytes of the other rows; the page fails with Unsupported only
\* when such a value is at a row that is pushed.
SkippedBad(k) ==
    /\ ~stream[k].read
    /\ ~BadAt(k)
    /\ SinkConvert(sink, stream[k].bytes).err # "none"

OnlyPushedValuesCount ==
    /\ stream # <<>> => RowsAsExpected
    /\ (pc = "returned" /\ stream # <<>>) =>
           /\ ret = "Unsupported" <=> ConverterFailed
           /\ ret \in {"Ok", "Layout"} => Decoded = Len(OutRows)
    /\ \A k \in 1..Len(stream) :
           SkippedBad(k) => (ret = "Unsupported" => k < Len(stream))

C23_SkippedNotValidated ==
    /\ []OnlyPushedValuesCount
    /\ [][Driving("skip") =>
             /\ pc' = "driving" /\ ret' = "none"
             /\ data_vec' = data_vec
             /\ pending' = Tail(pending)
             /\ \A k \in (Len(stream) + 1)..Len(stream') : ~stream'[k].read]_vars

\* A byte-array decode to Decimal8 of rows [1, 2): row 0 holds a zero-length
\* value and is passed over, row 1 holds 05; the call succeeds with the row 05.
C23_Witness ==
    /\ pc = "returned"
    /\ ret = "Ok"
    /\ call.entry = "decode_byte_array_decimal"
    /\ page.row_lo = 1
    /\ page.row_hi = 2
    /\ Len(stream) = 2
    /\ sink.N = 1
    /\ SkippedBad(1)
    /\ stream[1].bytes = <<>>
    /\ stream[2] = Entry(-1, <<5>>)
    /\ data_vec = call.initial \o <<5>>
====
